---------------------------- MODULE Spec2Model ----------------------------
(***************************************************************************)
(* FIFO gain/loss calculator (streamlit_app.py): the run of one            *)
(* calculation over an uploaded transaction table.                         *)
(*                                                                         *)
(* Numbers.  Quantities, prices and gains are Python floats (IEEE-754      *)
(* binary64).  A float is modelled by its exact value                      *)
(*      s * m * 2^e      s in {-1, 0, 1}, m an odd natural, e an integer   *)
(* written [s |-> s, m |-> limbs, e |-> e], where limbs is m in base       *)
(* 2^15, least significant limb first (m needs up to 53 bits, more than a  *)
(* TLC integer holds).  Zero is [s |-> 0, m |-> <<>>, e |-> 0]; the sign   *)
(* of a zero, NaN, infinities, subnormals and overflow are outside the     *)
(* model (no input of the bounded sets reaches them).  Every arithmetic    *)
(* operator computes the exact result and rounds it to 53 significant      *)
(* bits, ties to even, as the hardware does.                               *)
(***************************************************************************)
EXTENDS Integers, Sequences, FiniteSets, TLC

\* ----------------------------------------------------------------------
\* Natural numbers of any size: sequences of limbs, base 2^15, least
\* significant first, no leading (most significant) zero limb.

LimbBits == 15
MantBits == 53

RECURSIVE Pow2(_)
Pow2(n) == IF n = 0 THEN 1 ELSE 2 * Pow2(n - 1)

Base == Pow2(LimbBits)

RECURSIVE BNorm(_)
BNorm(a) ==
    IF a = <<>> THEN <<>>
    ELSE IF a[Len(a)] = 0 THEN BNorm(SubSeq(a, 1, Len(a) - 1))
    ELSE a

RECURSIVE BFromInt(_)
BFromInt(n) == IF n = 0 THEN <<>> ELSE <<n % Base>> \o BFromInt(n \div Base)

Limb(a, i) == IF i <= Len(a) THEN a[i] ELSE 0

RECURSIVE BAddC(_, _, _, _)
BAddC(a, b, i, carry) ==
    IF i > Len(a) /\ i > Len(b)
    THEN (IF carry = 0 THEN <<>> ELSE <<carry>>)
    ELSE LET t == Limb(a, i) + Limb(b, i) + carry
         IN  <<t % Base>> \o BAddC(a, b, i + 1, t \div Base)

BAdd(a, b) == BAddC(a, b, 1, 0)

\* a - b for a >= b
RECURSIVE BSubC(_, _, _, _)
BSubC(a, b, i, borrow) ==
    IF i > Len(a) THEN <<>>
    ELSE LET t == Limb(a, i) - Limb(b, i) - borrow
         IN  IF t < 0 THEN <<t + Base>> \o BSubC(a, b, i + 1, 1)
             ELSE <<t>> \o BSubC(a, b, i + 1, 0)

BSub(a, b) == BNorm(BSubC(a, b, 1, 0))

\* -1, 0, 1 as a < b, a = b, a > b
RECURSIVE BCmpAt(_, _, _)
BCmpAt(a, b, i) ==
    IF i = 0 THEN 0
    ELSE IF a[i] < b[i] THEN -1
    ELSE IF a[i] > b[i] THEN 1
    ELSE BCmpAt(a, b, i - 1)

BCmp(a, b) ==
    IF Len(a) < Len(b) THEN -1
    ELSE IF Len(a) > Len(b) THEN 1
    ELSE BCmpAt(a, b, Len(a))

\* a * k for 0 <= k < Base
RECURSIVE BMulSmallC(_, _, _, _)
BMulSmallC(a, k, i, carry) ==
    IF i > Len(a)
    THEN (IF carry = 0 THEN <<>> ELSE <<carry>>)
    ELSE LET t == a[i] * k + carry
         IN  <<t % Base>> \o BMulSmallC(a, k, i + 1, t \div Base)

BMulSmall(a, k) == BNorm(BMulSmallC(a, k, 1, 0))

Zeros(n) == [i \in 1..n |-> 0]

RECURSIVE BMulAt(_, _, _)
BMulAt(a, b, i) ==
    IF i > Len(b) THEN <<>>
    ELSE BAdd(BNorm(Zeros(i - 1) \o BMulSmall(a, b[i])), BMulAt(a, b, i + 1))

BMul(a, b) == BNorm(BMulAt(a, b, 1))

\* <<a div d, a mod d>> for 0 < d < Base, from the most significant limb down
RECURSIVE BDivSmallAt(_, _, _, _)
BDivSmallAt(a, d, i, rem) ==
    IF i = 0 THEN <<<<>>, rem>>
    ELSE LET t    == rem * Base + a[i]
             rest == BDivSmallAt(a, d, i - 1, t % d)
         IN  <<rest[1] \o <<t \div d>>, rest[2]>>

BDivSmall(a, d) ==
    LET r == BDivSmallAt(a, d, Len(a), 0)
    IN  <<BNorm(r[1]), r[2]>>

BitLen1(n) == CHOOSE k \in 0..LimbBits : Pow2(k) > n /\ (k = 0 \/ Pow2(k - 1) <= n)

BBitLen(a) == IF a = <<>> THEN 0 ELSE (Len(a) - 1) * LimbBits + BitLen1(a[Len(a)])

\* a * 2^n
BShl(a, n) ==
    IF a = <<>> THEN <<>>
    ELSE BMulSmall(Zeros(n \div LimbBits) \o a, Pow2(n % LimbBits))

\* a div 2^n
BShr(a, n) ==
    LET k == n \div LimbBits
    IN  IF k >= Len(a) THEN <<>>
        ELSE BDivSmall(SubSeq(a, k + 1, Len(a)), Pow2(n % LimbBits))[1]

\* a mod 2^n
BLow(a, n) == BSub(a, BShl(BShr(a, n), n))

\* the number of trailing zero bits of a /= 0
RECURSIVE BTrail(_)
BTrail(a) ==
    IF a[1] = 0 THEN LimbBits + BTrail(Tail(a))
    ELSE CHOOSE k \in 0..LimbBits : a[1] % Pow2(k) = 0 /\ a[1] % Pow2(k + 1) /= 0


\* ----------------------------------------------------------------------
\* Python floats.

FZero == [s |-> 0, m |-> <<>>, e |-> 0]

\* s * m * 2^e in canonical form (m odd), for m of at most MantBits bits
Canon(s, m, e) ==
    IF m = <<>> \/ s = 0 THEN FZero
    ELSE LET t == BTrail(m)
         IN  [s |-> s, m |-> BShr(m, t), e |-> e + t]

\* The float nearest to s * (m + f) * 2^e, ties to even, where 0 <= f < 1
\* and sticky says f > 0 (then m has more than MantBits bits).
RoundNearestEven(s, m, e, sticky) ==
    LET len == BBitLen(m)
    IN  IF len <= MantBits THEN Canon(s, m, e)
        ELSE LET d    == len - MantBits
                 q    == BShr(m, d)
                 c    == BCmp(BLow(m, d), BShl(<<1>>, d - 1))
                 up   == \/ c > 0
                         \/ c = 0 /\ sticky
                         \/ c = 0 /\ ~sticky /\ q[1] % 2 = 1
             IN  Canon(s, IF up THEN BAdd(q, <<1>>) ELSE q, e + d)

FNeg(a) == [a EXCEPT !.s = -a.s]

\* abs(x)
FAbs(a) == [a EXCEPT !.s = IF a.s = 0 THEN 0 ELSE 1]

Min2(x, y) == IF x < y THEN x ELSE y

\* the magnitudes of a and b, nonzero, as naturals in units of 2^Min2(a.e, b.e)
AlignedA(a, b) == BShl(a.m, a.e - Min2(a.e, b.e))
AlignedB(a, b) == BShl(b.m, b.e - Min2(a.e, b.e))

\* -1, 0, 1 as |a| < |b|, |a| = |b|, |a| > |b|
MagCmp(a, b) ==
    IF a.s = 0 /\ b.s = 0 THEN 0
    ELSE IF a.s = 0 THEN -1
    ELSE IF b.s = 0 THEN 1
    ELSE LET ta == BBitLen(a.m) + a.e
             tb == BBitLen(b.m) + b.e
         IN  IF ta < tb THEN -1
             ELSE IF ta > tb THEN 1
             ELSE BCmp(AlignedA(a, b), AlignedB(a, b))

\* -1, 0, 1 as a < b, a == b, a > b
FCmp(a, b) ==
    IF a.s /= b.s THEN (IF a.s < b.s THEN -1 ELSE 1)
    ELSE a.s * MagCmp(a, b)

FLt(a, b) == FCmp(a, b) < 0
FGt(a, b) == FCmp(a, b) > 0
FEq(a, b) == FCmp(a, b) = 0

\* min(a, b): Python returns the first argument unless the second is smaller
FMin(a, b) == IF FLt(b, a) THEN b ELSE a

\* a + b
FAdd(a, b) ==
    IF a.s = 0 THEN b
    ELSE IF b.s = 0 THEN a
    ELSE LET ma == AlignedA(a, b)
             mb == AlignedB(a, b)
             e  == Min2(a.e, b.e)
             c  == BCmp(ma, mb)
         IN  IF a.s = b.s THEN RoundNearestEven(a.s, BAdd(ma, mb), e, FALSE)
             ELSE IF c = 0 THEN FZero
             ELSE IF c > 0 THEN RoundNearestEven(a.s, BSub(ma, mb), e, FALSE)
             ELSE RoundNearestEven(b.s, BSub(mb, ma), e, FALSE)

\* a - b
FSub(a, b) == FAdd(a, FNeg(b))

\* a * b
FMul(a, b) ==
    IF a.s = 0 \/ b.s = 0 THEN FZero
    ELSE RoundNearestEven(a.s * b.s, BMul(a.m, b.m), a.e + b.e, FALSE)

\* The float nearest to s * k / scale (k a natural of any size, 0 < scale <
\* Base): what float("...") and the last step of round(x, 2) return.
GuardBits == 75

FromDecimal(s, k, scale) ==
    LET qr == BDivSmall(BShl(k, GuardBits), scale)
    IN  RoundNearestEven(s, qr[1], -GuardBits, qr[2] /= 0)

\* round(x, 2): x rounded to a multiple of 1/100, ties of the exact binary
\* value to the even multiple, then the float nearest to that decimal.
Round2(x) ==
    IF x.s = 0 \/ x.e >= 0 THEN x
    ELSE LET n    == BMulSmall(x.m, 100)
             q    == BShr(n, -x.e)
             c    == BCmp(BLow(n, -x.e), BShl(<<1>>, -x.e - 1))
             up   == c > 0 \/ (c = 0 /\ Limb(q, 1) % 2 = 1)
             k    == IF up THEN BAdd(q, <<1>>) ELSE q
         IN  FromDecimal(x.s, k, 100)


\* ----------------------------------------------------------------------
\* The uploaded table and the selections.
\*
\* A row of df: [date, type, qty, price, id, cur].  date is the text of the
\* date cell: the day number it denotes, or BadDate for a text that is no
\* date.  qty and price are cells [valid, milli]: a cell float() accepts,
\* denoting the decimal milli/1000, or (valid = FALSE) a text it rejects.
\* id and cur are the identifier and the currency, numbered in their sort
\* order.  extra holds the cells of the row in the other columns of the
\* table, by header.  Rows with missing values were dropped before (lines
\* 75-79).

BadDate == -1
NaT == 0
UnknownDate == -2
NA == 0

\* 'Unknown' where a float is expected (lines 159-160)
Unknown == [s |-> 0, m |-> <<>>, e |-> 1]

Abs(n) == IF n < 0 THEN -n ELSE n
Sign(n) == IF n < 0 THEN -1 ELSE IF n > 0 THEN 1 ELSE 0

\* float(cell), for a cell float() accepts (lines 128-129)
Float(cell) == FromDecimal(Sign(cell.milli), BFromInt(Abs(cell.milli)), 1000)

\* pd.to_datetime(..., errors='coerce') of one cell (lines 106-109)
ToDatetime(d) == IF d = BadDate THEN NaT ELSE d

\* df.sort_values(by=date_col) (line 111), kind='quicksort': the rows without a
\* date are set apart and put last, in their order; the others are sorted by
\* numpy's quicksort on their dates: a segment of more than SmallQuicksort + 1
\* rows is partitioned around the median of its first, middle and last row,
\* a shorter one is sorted by insertion.  The insertion keeps rows of equal
\* dates in their order; the partition does not.  (The depth limit of the
\* quicksort, 2 * floor(log2(n)) nested partitions, is not reached by a table
\* of less than 26 rows.)
SmallQuicksort == 16

RECURSIVE InsertByDate(_, _)
InsertByDate(sorted, row) ==
    IF sorted = <<>> THEN <<row>>
    ELSE IF sorted[Len(sorted)].date > row.date
         THEN InsertByDate(SubSeq(sorted, 1, Len(sorted) - 1), row)
              \o <<sorted[Len(sorted)]>>
         ELSE sorted \o <<row>>

RECURSIVE InsertionSort(_)
InsertionSort(rows) ==
    IF rows = <<>> THEN <<>>
    ELSE InsertByDate(InsertionSort(SubSeq(rows, 1, Len(rows) - 1)), rows[Len(rows)])

Swap(a, i, j) == [a EXCEPT ![i] = a[j], ![j] = a[i]]

\* if (less(v[*hi], v[*lo])) INTP_SWAP(*hi, *lo)
SwapIfLess(a, hi, lo) == IF a[hi].date < a[lo].date THEN Swap(a, hi, lo) ELSE a

\* do ++pi while (less(v[*pi], vp)), from the place after pi
RECURSIVE ScanUp(_, _, _)
ScanUp(a, pi, vp) == IF a[pi].date < vp THEN ScanUp(a, pi + 1, vp) ELSE pi

\* do --pj while (less(vp, v[*pj])), from the place before pj
RECURSIVE ScanDown(_, _, _)
ScanDown(a, pj, vp) == IF vp < a[pj].date THEN ScanDown(a, pj - 1, vp) ELSE pj

\* the for (;;) loop of the partition
RECURSIVE PartitionLoop(_, _, _, _)
PartitionLoop(a, pi, pj, vp) ==
    LET i == ScanUp(a, pi + 1, vp)
        j == ScanDown(a, pj - 1, vp)
    IN  IF i >= j THEN [a |-> a, pi |-> i]
        ELSE PartitionLoop(Swap(a, i, j), i, j, vp)

\* the partition of the segment pl..pr: the array after it and the place of
\* the pivot
Partition(a, pl, pr) ==
    LET pm == pl + ((pr - pl) \div 2)
        a1 == SwapIfLess(a, pm, pl)
        a2 == SwapIfLess(a1, pr, pm)
        a3 == SwapIfLess(a2, pm, pl)
        vp == a3[pm].date
        a4 == Swap(a3, pm, pr - 1)
        lp == PartitionLoop(a4, pl, pr - 1, vp)
    IN  [a |-> Swap(lp.a, lp.pi, pr - 1), pi |-> lp.pi]

\* the segment pl..pr sorted by insertion
InsertionSortSegment(a, pl, pr) ==
    SubSeq(a, 1, pl - 1) \o InsertionSort(SubSeq(a, pl, pr)) \o SubSeq(a, pr + 1, Len(a))

\* the quicksort of the segment pl..pr (the two parts of a partition are
\* disjoint: the order in which the stack yields them changes nothing)
RECURSIVE QuicksortSegment(_, _, _)
QuicksortSegment(a, pl, pr) ==
    IF pr - pl > SmallQuicksort
    THEN LET p == Partition(a, pl, pr)
         IN  QuicksortSegment(QuicksortSegment(p.a, pl, p.pi - 1), p.pi + 1, pr)
    ELSE InsertionSortSegment(a, pl, pr)

Quicksort(rows) == QuicksortSegment(rows, 1, Len(rows))

IsNaT(row) == row.date = NaT
NotNaT(row) == row.date /= NaT

\* A faulty variant: the table is left in the order of the file
SortValuesNotSorted(rows) == rows

\* A faulty variant: na_position='first'
SortValuesNaTFirst(rows) == SelectSeq(rows, IsNaT) \o Quicksort(SelectSeq(rows, NotNaT))

SortValues(rows) == Quicksort(SelectSeq(rows, NotNaT)) \o SelectSeq(rows, IsNaT)

\* lines 106-118: the date column converted, the table sorted, the
\* Identifier and Currency columns added
Converted(rows, hasCur) ==
    [i \in 1..Len(rows) |->
        [date |-> ToDatetime(rows[i].date), type |-> rows[i].type,
         qty |-> rows[i].qty, price |-> rows[i].price,
         Identifier |-> rows[i].id,
         Currency |-> IF hasCur THEN rows[i].cur ELSE NA,
         extra |-> [h \in DOMAIN rows[i].extra |->
                      IF h = "Identifier" THEN rows[i].id
                      ELSE IF h = "Currency" THEN (IF hasCur THEN rows[i].cur ELSE NA)
                      ELSE rows[i].extra[h]]]]

Prepare(rows, hasCur) == SortValues(Converted(rows, hasCur))

\* The keys of the dicts of lines 164-173 and 182-193 as fields of the
\* model's records; a column of any other header has a field of its own,
\* which is no field of those records.
ColumnKey(col) ==
    CASE col = "Date"         -> "Date"
      [] col = "Identifier"   -> "Identifier"
      [] col = "Currency"     -> "Currency"
      [] col = "Sell Price"   -> "SellPrice"
      [] col = "Sell Qty"     -> "SellQty"
      [] col = "Gain/Loss"    -> "GainLoss"
      [] col = "Matched Lots" -> "MatchedLots"
      [] col = "Buy Date"     -> "BuyDate"
      [] col = "Buy Price"    -> "BuyPrice"
      [] col = "Sell Date"    -> "SellDate"
      [] col = "Used Qty"     -> "UsedQty"
      [] OTHER                -> "column " \o col

\* line 134: identifiers = {col: row[col] for col in extra_id_cols}
Identifiers(r, cols) ==
    [k \in {ColumnKey(cols[i]) : i \in 1..Len(cols)} |->
        r.extra[cols[CHOOSE i \in 1..Len(cols) : ColumnKey(cols[i]) = k]]]

KeyOf(row) == <<row.Identifier, row.Currency>>

KeyLess(k1, k2) == k1[1] < k2[1] \/ (k1[1] = k2[1] /\ k1[2] < k2[2])

RECURSIVE SortKeys(_)
SortKeys(keys) ==
    IF keys = {} THEN <<>>
    ELSE LET k == CHOOSE x \in keys : \A y \in keys \ {x} : KeyLess(x, y)
         IN  <<k>> \o SortKeys(keys \ {k})

RowsOfKey(rows, key) ==
    LET Has(r) == KeyOf(r) = key
    IN  SelectSeq(rows, Has)

\* the keys of the rows in the order they are first met
RECURSIVE FirstSeen(_)
FirstSeen(rows) ==
    IF rows = <<>> THEN <<>>
    ELSE LET before == FirstSeen(SubSeq(rows, 1, Len(rows) - 1))
             k      == KeyOf(rows[Len(rows)])
         IN  IF \E i \in 1..Len(before) : before[i] = k THEN before
             ELSE Append(before, k)

\* A faulty variant: groupby(..., sort=False), the groups in the order their
\* keys are first met in df
GroupByFirstSeen(rows) ==
    LET keys == FirstSeen(rows)
    IN  [g \in 1..Len(keys) |-> [key |-> keys[g], rows |-> RowsOfKey(rows, keys[g])]]

\* df.groupby(['Identifier', 'Currency']) (line 122): the groups in the order
\* of their keys, each with its rows in the order of df
GroupBy(rows) ==
    LET keys == SortKeys({KeyOf(rows[i]) : i \in 1..Len(rows)})
    IN  [g \in 1..Len(keys) |-> [key |-> keys[g], rows |-> RowsOfKey(rows, keys[g])]]


\* ----------------------------------------------------------------------
\* The matcher: the body of the loop over the rows of a group.

\* lines 125-132: no exception is raised parsing the row
Parses(row) == row.qty.valid /\ row.price.valid

\* line 128: qty = abs(float(...))
QtyOf(row) == FAbs(Float(row.qty))

\* line 129: price = float(...)
PriceOf(row) == Float(row.price)

\* line 137: the lot a Buy appends, [qty, price, date]
NewLot(qty, price, date) == [qty |-> qty, price |-> price, date |-> date]

\* line 146: used_qty = min(sell_qty, buy_qty)
UsedQty(sellQty, buyQty) == FMin(sellQty, buyQty)

\* lines 147-149: the gain of one matched lot
Gain(usedQty, price, buyPrice, roundGains) ==
    LET gain == FMul(usedQty, FSub(price, buyPrice))
    IN  IF roundGains THEN Round2(gain) ELSE gain

\* line 151: the matched lot (used_qty, buy_price, buy_date, price, gain)
MatchedLot(usedQty, buyPrice, buyDate, price, gain) ==
    [used_qty |-> usedQty, buy_price |-> buyPrice, buy_date |-> buyDate,
     price |-> price, gain |-> gain]

\* A faulty variant: the front lot is removed whatever is left of it
ConsumeAlwaysPops(queue, usedQty) == Tail(queue)

\* A faulty variant: a lot is removed only when something was used of it
ConsumeUnlessNothingUsed(queue, usedQty) ==
    IF FEq(usedQty, queue[1].qty) /\ FGt(usedQty, FZero) THEN Tail(queue)
    ELSE [queue EXCEPT ![1].qty = FSub(queue[1].qty, usedQty)]

\* lines 153-156: the queue after used_qty of its front lot is consumed
Consume(queue, usedQty) ==
    IF FEq(usedQty, queue[1].qty) THEN Tail(queue)
    ELSE [queue EXCEPT ![1].qty = FSub(queue[1].qty, usedQty)]

\* lines 158-160: the lot of a sale matched against an empty queue
UnknownLot(sellQty, price) == MatchedLot(sellQty, Unknown, UnknownDate, price, Unknown)

\* line 143: while sell_qty > 0
Looping(sellQty) == FGt(sellQty, FZero)

\* lines 145-156, 162: an iteration that finds the queue non-empty, on the
\* loop's state m = [queue, sell_qty, total_gain, lots]
KnownStep(m, price, roundGains) ==
    LET front == m.queue[1]
        used  == UsedQty(m.sell_qty, front.qty)
        gain  == Gain(used, price, front.price, roundGains)
    IN  [queue      |-> Consume(m.queue, used),
         sell_qty   |-> FSub(m.sell_qty, used),
         total_gain |-> FAdd(m.total_gain, gain),
         lots       |-> Append(m.lots,
                           MatchedLot(used, front.price, front.date, price, gain))]

\* A faulty variant: the unmatched quantity is split into lots of at most 1
UnknownStepSplit(m, price) ==
    LET used == FMin(m.sell_qty, FromDecimal(1, <<1>>, 1))
    IN  [queue      |-> m.queue,
         sell_qty   |-> FSub(m.sell_qty, used),
         total_gain |-> m.total_gain,
         lots       |-> Append(m.lots, UnknownLot(used, price))]

\* lines 158-162: an iteration that finds the queue empty
UnknownStep(m, price) ==
    [queue      |-> m.queue,
     sell_qty   |-> FSub(m.sell_qty, m.sell_qty),
     total_gain |-> m.total_gain,
     lots       |-> Append(m.lots, UnknownLot(m.sell_qty, price))]

\* lines 144-162: one iteration of the while loop
MatchStep(m, price, roundGains) ==
    IF m.queue /= <<>> THEN KnownStep(m, price, roundGains)
    ELSE UnknownStep(m, price)

\* line 170: total_gain if isinstance(total_gain, (int, float)) else 'Unknown'
GainLoss(totalGain) == IF totalGain /= Unknown THEN totalGain ELSE Unknown

\* lines 164-173: the Sale Result appended to results; **identifiers comes
\* last in the dict (line 172), so the cell of an additional column replaces
\* the value of a key of the same name
SaleResult(date, key, price, qty, totalGain, lots, identifiers) ==
    identifiers @@
    [Date |-> date, Identifier |-> key[1], Currency |-> key[2],
     SellPrice |-> price, SellQty |-> qty, GainLoss |-> GainLoss(totalGain),
     MatchedLots |-> lots]

\* lines 143-162: the while loop, run to its end
RECURSIVE Matching(_, _, _)
Matching(m, price, roundGains) ==
    IF Looping(m.sell_qty) THEN Matching(MatchStep(m, price, roundGains), price, roundGains)
    ELSE m

\* lines 125-173: the body of the loop over the rows, on st = [queue, results],
\* under the selections sel = [buy_vals, sell_vals, round_gains, extra_id_cols]
RowEffect(st, r, key, sel) ==
    IF ~Parses(r) THEN st
    ELSE IF r.type \in sel.buy_vals
    THEN [st EXCEPT !.queue = Append(@, NewLot(QtyOf(r), PriceOf(r), r.date))]
    ELSE IF r.type \in sel.sell_vals
    THEN LET m == Matching([queue |-> st.queue, sell_qty |-> QtyOf(r),
                            total_gain |-> FZero, lots |-> <<>>],
                           PriceOf(r), sel.round_gains)
         IN  [queue   |-> m.queue,
              results |-> Append(st.results,
                            SaleResult(r.date, key, PriceOf(r), QtyOf(r),
                                       m.total_gain, m.lots,
                                       Identifiers(r, sel.extra_id_cols)))]
    ELSE st

\* lines 123-173: one group, from an empty queue
RECURSIVE RowsEffect(_, _, _, _)
RowsEffect(st, rows, key, sel) ==
    IF rows = <<>> THEN st
    ELSE RowsEffect(RowEffect(st, rows[1], key, sel), Tail(rows), key, sel)

RECURSIVE GroupsEffect(_, _, _)
GroupsEffect(results, grps, sel) ==
    IF grps = <<>> THEN results
    ELSE GroupsEffect(
            RowsEffect([queue |-> <<>>, results |-> results],
                       grps[1].rows, grps[1].key, sel).results,
            Tail(grps), sel)

\* lines 104-173: the results of the calculation on a table
FifoCalculation(rows, sel, hasCur) ==
    GroupsEffect(<<>>, GroupBy(Prepare(rows, hasCur)), sel)

\* ----------------------------------------------------------------------
\* The result aggregator (lines 178-196).

\* a date cell of the output: a formatted date, or a literal
DateText(kind, day) == [text |-> kind, day |-> day]

\* line 184: lot[2].strftime(...) if isinstance(lot[2], pd.Timestamp) else lot[2]
BuyDateText(d) ==
    IF d = UnknownDate THEN DateText("Unknown", 0)
    ELSE IF d = NaT THEN DateText("NaT", 0)
    ELSE DateText("strftime", d)

\* line 186: row['Date'].strftime(...) if pd.notnull(row['Date']) else 'Invalid Date'
SellDateText(d) ==
    IF d = NaT THEN DateText("Invalid Date", 0) ELSE DateText("strftime", d)

\* a cell that holds a text
Text(t) == [text |-> t]

\* lines 182-195: the output row of one matched lot of one Sale Result; the
\* additional columns are set last (lines 194-195), each to the value the Sale
\* Result has under its name, and replace a key of the same name.  (The
\* columns considered bear neither the name of the date nor that of the
\* Matched Lots of the Sale Result.)
OutputRow(res, lot, hasCur, cols) ==
    [k \in {ColumnKey(cols[i]) : i \in 1..Len(cols)} |->
        IF k \in DOMAIN res THEN res[k] ELSE Text("")]
    @@
    [Identifier |-> res.Identifier,
     BuyDate    |-> BuyDateText(lot.buy_date),
     BuyPrice   |-> lot.buy_price,
     SellDate   |-> SellDateText(res.Date),
     SellPrice  |-> res.SellPrice,
     SellQty    |-> res.SellQty,
     UsedQty    |-> lot.used_qty,
     GainLoss   |-> lot.gain]
    @@ (IF hasCur THEN [Currency |-> res.Currency] ELSE <<>>)

\* lines 179-196: the two nested loops
RECURSIVE ExpandResults(_, _, _)
ExpandResults(res, hasCur, cols) ==
    IF res = <<>> THEN <<>>
    ELSE [i \in 1..Len(res[1].MatchedLots) |->
             OutputRow(res[1], res[1].MatchedLots[i], hasCur, cols)]
         \o ExpandResults(Tail(res), hasCur, cols)


\* ----------------------------------------------------------------------
\* The inputs: uploaded tables and selections, from bounded sets.

MaxRows == 3

Num(k) == [valid |-> TRUE, milli |-> k]
Bad == [valid |-> FALSE, milli |-> 0]

Row(d, t, q, p, i, c) ==
    [date |-> d, type |-> t, qty |-> q, price |-> p, id |-> i, cur |-> c, extra |-> <<>>]

\* row i of the table dated day i
Dated(rows) == [i \in 1..Len(rows) |-> [rows[i] EXCEPT !.date = i]]

\* the rows of the worked examples: Buy 10 @ 5, Buy 5 @ 6, Sell 12 @ 8,
\* Sell 5 @ 10, Buy 3 @ 2, Sell 5 @ 4, Sell 0 @ 10
ExampleRows ==
    { Row(0, "Buy", Num(10000), Num(5000), 1, 1),
      Row(0, "Buy", Num(5000), Num(6000), 1, 1),
      Row(0, "Sell", Num(12000), Num(8000), 1, 1),
      Row(0, "Sell", Num(5000), Num(10000), 1, 1),
      Row(0, "Buy", Num(3000), Num(2000), 1, 1),
      Row(0, "Sell", Num(5000), Num(4000), 1, 1),
      Row(0, "Sell", Num(0), Num(10000), 1, 1) }

\* fractional quantities: 0.1, 0.2 and 0.9 bought at 1, 0.1 .. 0.4 sold at 2
DecimalRows ==
    { Row(0, "Buy", Num(q), Num(1000), 1, 1) : q \in {100, 200, 900} }
    \cup { Row(0, "Sell", Num(q), Num(2000), 1, 1) : q \in {100, 200, 300, 400} }

\* two identifiers, the dates of the first in any order, some of them no dates
GroupRows ==
    { Row(d, "Buy", Num(2000), Num(1000), 1, 1) : d \in {1, 2, BadDate} }
    \cup { Row(d, "Sell", Num(1000), Num(2000), 1, 1) : d \in {1, 2, BadDate} }
    \cup { Row(1, "Buy", Num(2000), Num(1000), 2, 1), Row(1, "Sell", Num(1000), Num(2000), 2, 1) }

\* cells float() rejects, a quantity 0, a negative quantity bought, a type
\* that is neither a Buy nor a Sell
ParseRows ==
    { Row(0, "Buy", Bad, Num(1000), 1, 1),
      Row(0, "Sell", Num(1000), Bad, 1, 1) }
    \cup { Row(0, t, Num(0), Num(3000), 1, 1) : t \in {"Buy", "Sell"} }
    \cup { Row(0, "Buy", Num(-2000), Num(1000), 1, 1),
           Row(0, "Sell", Num(2000), Num(1000), 1, 1) }
    \cup { Row(0, "Fee", Bad, Num(1000), 1, 1),
           Row(0, "Fee", Num(1000), Num(3000), 1, 1) }

\* two identifiers in two currencies
CurrencyRows ==
    { Row(0, "Buy", Num(2000), Num(1000), k[1], k[2]) : k \in {<<1, 1>>, <<1, 2>>, <<2, 1>>} }
    \cup { Row(0, "Sell", Num(3000), Num(2000), k[1], k[2]) : k \in {<<1, 1>>, <<1, 2>>, <<2, 1>>} }

UniqueValues(rows) == {rows[i].type : i \in 1..Len(rows)}

\* the selections the two multiselects offer (lines 92-98), at most the one
\* value "Buy" as a Buy and the one value "Sell" as a Sell
Selections(rows) ==
    { sel \in [buy_vals : {{}, {"Buy"}}, sell_vals : {{}, {"Sell"}}] :
        sel.buy_vals \subseteq UniqueValues(rows)
        /\ sel.sell_vals \subseteq UniqueValues(rows) }

\* rows of one date, of identifier 1: two Buys and a Sell
TieRows ==
    { Row(9, "Buy", Num(2000), Num(1000), 1, 1),
      Row(9, "Buy", Num(1000), Num(3000), 1, 1),
      Row(9, "Sell", Num(1000), Num(2000), 1, 1) }

\* rows of identifier 2 that are neither Buys nor Sells, one for each of the
\* days from..to, the first of them with a price float() rejects
OtherRows(from, to) ==
    [i \in 1..(to - from + 1) |->
        Row(from + i - 1, "Fee", Num(1000), IF i = 1 THEN Bad ELSE Num(1000), 2, 1)]

\* three Buys of 1, at 0.1, 0.2 and 0.3, on days 1, 2 and 3
ThreeBuys ==
    << Row(1, "Buy", Num(1000), Num(100), 1, 1),
       Row(2, "Buy", Num(1000), Num(200), 1, 1),
       Row(3, "Buy", Num(1000), Num(300), 1, 1) >>

\* Sells of day 9, at 1 and at 1.005
RoundingRows ==
    { Row(9, "Sell", Num(3000), Num(1000), 1, 1),
      Row(9, "Sell", Num(1500), Num(1005), 1, 1) }

\* a Buy of 10 at 5, Sells of 4 and of 0 at 8
ExtraRows ==
    { Row(0, "Buy", Num(10000), Num(5000), 1, 1),
      Row(0, "Sell", Num(4000), Num(8000), 1, 1),
      Row(0, "Sell", Num(0), Num(8000), 1, 1) }

\* no column besides the mapped ones
NoColumn == {<<>>}

\* one more column in the table, the same cell in every row: a ticker, or a
\* column that bears the name of a key of the output.  No cell is a text
\* that lines 44-46 read as a missing value (such as 'n/a'): the rows are
\* kept at lines 75-79 when the column is selected.
ExtraColumns ==
    { "Ticker" :> Text("ABC"),
      "Gain/Loss" :> Text("tbd"),
      "Used Qty" :> Float(Num(99000)),
      "Sell Price" :> Float(Num(1000)) }

\* line 67: the additional identification columns the multiselect offers on
\* a table with the other columns of extra: none, or one
ExtraSelections(extra) == {<<>>} \cup {<<h>> : h \in DOMAIN extra}

\* the rows with the cells of extra in the other columns
WithColumns(rows, extra) == [i \in 1..Len(rows) |-> [rows[i] EXCEPT !.extra = extra]]

\* The families of inputs: the rows a table is made of, whether row i is
\* dated day i (or keeps the date of its row), the settings of the two
\* checkboxes, the rows the table has before and after those, and the other
\* columns the table may have.
Family(rows, dated, roundings, currencies, before, after, columns) ==
    [rows |-> rows, dated |-> dated, roundings |-> roundings, currencies |-> currencies,
     before |-> before, after |-> after, columns |-> columns]

Families ==
    { Family(ExampleRows, TRUE, {TRUE}, {TRUE}, <<>>, <<>>, NoColumn),
      Family(DecimalRows, TRUE, BOOLEAN, {TRUE}, <<>>, <<>>, NoColumn),
      Family(GroupRows, FALSE, {TRUE}, {TRUE}, <<>>, <<>>, NoColumn),
      Family(ParseRows, TRUE, {TRUE}, {TRUE}, <<>>, <<>>, NoColumn),
      Family(CurrencyRows, TRUE, {TRUE}, BOOLEAN, <<>>, <<>>, NoColumn),
      Family(TieRows, FALSE, {TRUE}, {TRUE}, OtherRows(1, 8), OtherRows(10, 17), NoColumn),
      Family(RoundingRows, FALSE, BOOLEAN, {TRUE}, ThreeBuys, <<>>, NoColumn),
      Family(ExtraRows, TRUE, {TRUE}, {TRUE}, <<>>, <<>>, ExtraColumns) }

\* ----------------------------------------------------------------------
\* The run.

VARIABLES
    loaded,            \* the table as uploaded (never changed)
    df,                \* line 44/111: the table, sorted by Run
    buy_vals,          \* line 97
    sell_vals,         \* line 98
    round_gains,       \* line 82
    has_currency,      \* line 114
    extra_id_cols,     \* line 67
    pc,                \* where the script is
    groups,            \* line 122: the groups still to iterate, with gi
    gi,                \* the index of the current group
    ri,                \* the index of the next row of the current group
    fifo_queue,        \* line 123
    sell_qty,          \* line 139
    total_gain,        \* line 140
    lots,              \* line 141
    results,           \* line 120
    expanded_results,  \* line 179
    previous           \* what the execution before this one displayed, if any

vars == <<loaded, df, buy_vals, sell_vals, round_gains, has_currency, extra_id_cols, pc, groups,
          gi, ri, fifo_queue, sell_qty, total_gain, lots, results, expanded_results,
          previous>>

config == <<loaded, buy_vals, sell_vals, round_gains, has_currency, extra_id_cols>>
locals == <<sell_qty, total_gain, lots>>

\* the table is uploaded and the selections are made
Init ==
    \E fam \in Families, k \in 1..MaxRows :
      \E t \in [1..k -> fam.rows] :
        \E sel \in Selections(fam.before \o t \o fam.after), r \in fam.roundings,
           h \in fam.currencies, extra \in fam.columns :
          \E cols \in ExtraSelections(extra) :
            /\ loaded = WithColumns(
                  fam.before \o (IF fam.dated THEN Dated(t) ELSE t) \o fam.after, extra)
            /\ extra_id_cols = cols
            /\ df = loaded
            /\ buy_vals = sel.buy_vals
            /\ sell_vals = sel.sell_vals
            /\ round_gains = r
            /\ has_currency = h
            /\ pc = "selected"
            /\ groups = <<>>
            /\ gi = 0
            /\ ri = 0
            /\ fifo_queue = <<>>
            /\ sell_qty = FZero
            /\ total_gain = FZero
            /\ lots = <<>>
            /\ results = <<>>
            /\ expanded_results = <<>>
            /\ previous = <<>>

\* lines 100-102: no Buy value or no Sell value selected: st.stop()
ConfigError ==
    /\ pc = "selected"
    /\ buy_vals = {} \/ sell_vals = {}
    /\ pc' = "stopped"
    /\ UNCHANGED <<config, previous, df, groups, gi, ri, fifo_queue, locals, results, expanded_results>>

\* A faulty variant: the button is offered whatever the selections
RunUnchecked ==
    /\ pc = "selected"
    /\ df' = Prepare(df, has_currency)
    /\ groups' = GroupBy(df')
    /\ gi' = 1
    /\ results' = <<>>
    /\ pc' = "groups"
    /\ UNCHANGED <<config, previous, ri, fifo_queue, locals, expanded_results>>

\* A faulty variant: results is not emptied before the loop over the groups
RunAppending ==
    /\ pc = "selected"
    /\ buy_vals /= {} /\ sell_vals /= {}
    /\ df' = Prepare(df, has_currency)
    /\ groups' = GroupBy(df')
    /\ gi' = 1
    /\ pc' = "groups"
    /\ UNCHANGED <<config, previous, ri, fifo_queue, locals, results, expanded_results>>

\* lines 104-120: the button is pressed; the table is sorted
Run ==
    /\ pc = "selected"
    /\ buy_vals /= {} /\ sell_vals /= {}
    /\ df' = Prepare(df, has_currency)
    /\ groups' = GroupBy(df')
    /\ gi' = 1
    /\ results' = <<>>
    /\ pc' = "groups"
    /\ UNCHANGED <<config, previous, ri, fifo_queue, locals, expanded_results>>

\* lines 122-123: the next group, with an empty queue
StartGroup ==
    /\ pc = "groups"
    /\ gi <= Len(groups)
    /\ fifo_queue' = <<>>
    /\ ri' = 1
    /\ pc' = "rows"
    /\ UNCHANGED <<config, previous, df, groups, gi, locals, results, expanded_results>>

row == groups[gi].rows[ri]

AtRow == pc = "rows" /\ ri <= Len(groups[gi].rows)

\* lines 125-132: the row does not parse: warning, continue
SkipRow ==
    /\ AtRow
    /\ ~Parses(row)
    /\ ri' = ri + 1
    /\ UNCHANGED <<config, previous, df, pc, groups, gi, fifo_queue, locals, results, expanded_results>>

\* A faulty variant: the lot is put at the front (appendleft)
BuyAtFront ==
    /\ AtRow
    /\ Parses(row)
    /\ row.type \in buy_vals
    /\ fifo_queue' = <<NewLot(QtyOf(row), PriceOf(row), row.date)>> \o fifo_queue
    /\ ri' = ri + 1
    /\ UNCHANGED <<config, previous, df, pc, groups, gi, locals, results, expanded_results>>

\* lines 136-137
Buy ==
    /\ AtRow
    /\ Parses(row)
    /\ row.type \in buy_vals
    /\ fifo_queue' = Append(fifo_queue, NewLot(QtyOf(row), PriceOf(row), row.date))
    /\ ri' = ri + 1
    /\ UNCHANGED <<config, previous, df, pc, groups, gi, locals, results, expanded_results>>

\* lines 138-141
SellStart ==
    /\ AtRow
    /\ Parses(row)
    /\ row.type \notin buy_vals
    /\ row.type \in sell_vals
    /\ sell_qty' = QtyOf(row)
    /\ total_gain' = FZero
    /\ lots' = <<>>
    /\ pc' = "sell"
    /\ UNCHANGED <<config, previous, df, groups, gi, ri, fifo_queue, results, expanded_results>>

\* lines 136-138: neither a Buy nor a Sell
OtherRow ==
    /\ AtRow
    /\ Parses(row)
    /\ row.type \notin buy_vals
    /\ row.type \notin sell_vals
    /\ ri' = ri + 1
    /\ UNCHANGED <<config, previous, df, pc, groups, gi, fifo_queue, locals, results, expanded_results>>

\* lines 143-162: one iteration of the while loop
SellLoop ==
    /\ pc = "sell"
    /\ Looping(sell_qty)
    /\ LET m == MatchStep([queue |-> fifo_queue, sell_qty |-> sell_qty,
                           total_gain |-> total_gain, lots |-> lots],
                          PriceOf(row), round_gains)
       IN  /\ fifo_queue' = m.queue
           /\ sell_qty' = m.sell_qty
           /\ total_gain' = m.total_gain
           /\ lots' = m.lots
    /\ UNCHANGED <<config, previous, df, pc, groups, gi, ri, results, expanded_results>>

\* lines 164-173: the loop is over; the Sale Result is appended
SellEnd ==
    /\ pc = "sell"
    /\ ~Looping(sell_qty)
    /\ results' = Append(results,
          SaleResult(row.date, groups[gi].key, PriceOf(row), QtyOf(row), total_gain, lots,
                     Identifiers(row, extra_id_cols)))
    /\ ri' = ri + 1
    /\ pc' = "rows"
    /\ UNCHANGED <<config, previous, df, groups, gi, fifo_queue, locals, expanded_results>>

\* line 124: the rows of the group are exhausted
EndGroup ==
    /\ pc = "rows"
    /\ ri > Len(groups[gi].rows)
    /\ gi' = gi + 1
    /\ pc' = "groups"
    /\ UNCHANGED <<config, previous, df, groups, ri, fifo_queue, locals, results, expanded_results>>

\* lines 178-198: the groups are exhausted; the results are expanded
Expand ==
    /\ pc = "groups"
    /\ gi > Len(groups)
    /\ expanded_results' = ExpandResults(results, has_currency, extra_id_cols)
    /\ pc' = "done"
    /\ UNCHANGED <<config, previous, df, groups, gi, ri, fifo_queue, locals, results>>

\* line 104, pressed again on the results: the script is executed again from
\* its top, on the same file (line 44) and the same widget values.  The names
\* of the execution before are gone; the model's variables keep their values
\* until the script assigns them.  One more execution is modelled.
Rerun ==
    /\ pc = "done"
    /\ previous = <<>>
    /\ previous' = <<[results |-> results, expanded_results |-> expanded_results]>>
    /\ df' = loaded
    /\ pc' = "selected"
    /\ UNCHANGED <<config, groups, gi, ri, fifo_queue, locals, results, expanded_results>>

Next ==
    \/ ConfigError
    \/ Run
    \/ StartGroup
    \/ SkipRow
    \/ Buy
    \/ SellStart
    \/ OtherRow
    \/ SellLoop
    \/ SellEnd
    \/ EndGroup
    \/ Expand
    \/ Rerun

Spec == Init /\ [][Next]_vars


\* ----------------------------------------------------------------------
\* The claims.  Arithmetic in a claim is the program's: Python floats.

\* sum(...) of Python: the floats added from left to right
RECURSIVE FSum(_)
FSum(xs) == IF xs = <<>> THEN FZero ELSE FAdd(FSum(SubSeq(xs, 1, Len(xs) - 1)), xs[Len(xs)])

UsedQuantities(ls) == [i \in 1..Len(ls) |-> ls[i].used_qty]

IsKnown(lot) == lot.gain /= Unknown
IsUnknown(lot) == lot.gain = Unknown

\* date a is strictly earlier than date b (NaT is no date: it is never earlier,
\* and every date is earlier than it, as sort_values places it)
Earlier(a, b) == a /= NaT /\ (b = NaT \/ a < b)

\* C1: for every Sale Result, the used quantities of its Matched Lots sum
\* exactly to the quantity of the Sell:
\* sum(lot.usedQuantity for lot in matchedLots) == sale.saleQuantity.
C1_UsedSumsToSaleQuantity ==
    \A i \in 1..Len(results) :
        FSum(UsedQuantities(results[i].MatchedLots)) = results[i].SellQty

\* C2: whenever an iteration of a Sell consumes from an open lot, no lot open
\* in the queue has a strictly earlier acquisition date than the lot consumed,
\* and the lot consumed is the front one: the lots behind it stay as they are.
C2_FifoOrder ==
    [][ (pc = "sell" /\ fifo_queue /= <<>> /\ Len(lots') = Len(lots) + 1) =>
          LET lot == lots'[Len(lots')]
              n   == Len(fifo_queue)
              n2  == Len(fifo_queue')
          IN  /\ lot.buy_date = fifo_queue[1].date
              /\ lot.buy_price = fifo_queue[1].price
              /\ \A i \in 1..n : ~Earlier(fifo_queue[i].date, lot.buy_date)
              /\ n2 \in {n - 1, n}
              /\ SubSeq(fifo_queue', n2 - n + 2, n2) = Tail(fifo_queue) ]_vars

\* C2, witness: a Sell has consumed from the lot of day 1 while a lot of day 2
\* is open, on a table that listed a row of day 2 first.
C2_Witness ==
    /\ pc = "sell"
    /\ lots /= <<>>
    /\ lots[1].buy_date = 1
    /\ fifo_queue /= <<>>
    /\ fifo_queue[Len(fifo_queue)].date = 2
    /\ loaded[1].date = 2

\* C3: after every processed row of a group, every lot of the queue has a
\* remaining quantity > 0 and the lots are in non-decreasing order of
\* acquisition date, a Buy of quantity 0 included.
C3_QueueInvariant ==
    pc = "rows" =>
        /\ \A i \in 1..Len(fifo_queue) : FGt(fifo_queue[i].qty, FZero)
        /\ \A i, j \in 1..Len(fifo_queue) :
              i < j => ~Earlier(fifo_queue[j].date, fifo_queue[i].date)


\* the float of a decimal given in thousandths
F(k) == Float(Num(k))

Gains(ls) == [i \in 1..Len(ls) |-> ls[i].gain]

Last(xs) == xs[Len(xs)]

\* C4: the total gain of every Sale Result is a number, the sum of the
\* recorded gains of its Matched Lots of known cost basis (0 without any);
\* the same holds of the running total inside the loop.
C4_TotalGain ==
    /\ \A i \in 1..Len(results) :
          /\ results[i].GainLoss /= Unknown
          /\ results[i].GainLoss = FSum(Gains(SelectSeq(results[i].MatchedLots, IsKnown)))
    /\ pc = "sell" => total_gain = FSum(Gains(SelectSeq(lots, IsKnown)))

\* the lots of a list in which an Unknown lot is only the last one, with
\* cost basis, date and gain all Unknown
UnknownOnlyLast(ls) ==
    \A j \in 1..Len(ls) :
        IsUnknown(ls[j]) =>
            /\ j = Len(ls)
            /\ ls[j].buy_price = Unknown
            /\ ls[j].buy_date = UnknownDate

ExampleB == Dated(<<Row(0, "Sell", Num(5000), Num(10000), 1, 1),
                    Row(0, "Buy", Num(3000), Num(2000), 1, 1)>>)

ExampleC == Dated(<<Row(0, "Buy", Num(3000), Num(2000), 1, 1),
                    Row(0, "Sell", Num(5000), Num(4000), 1, 1)>>)

\* C5: a Sell has at most one Unknown lot, its last; the lot takes the whole
\* quantity left when the queue ran empty, which ends the loop; the queue is
\* empty after that Sell.  Sell 5 @ 10 on an empty queue: one Unknown lot of 5,
\* total 0; Buy 3 @ 2, Sell 5 @ 4: (3, cost 2, gain 6), (2, Unknown), total 6.
C5_UnknownLot ==
    /\ [](\A i \in 1..Len(results) : UnknownOnlyLast(results[i].MatchedLots))
    /\ [](pc = "sell" =>
            /\ UnknownOnlyLast(lots)
            /\ (lots /= <<>> /\ IsUnknown(Last(lots))) =>
                   fifo_queue = <<>> /\ sell_qty = FZero)
    /\ []((pc = "done" /\ loaded = ExampleB) =>
            /\ results[1].MatchedLots = <<UnknownLot(F(5000), F(10000))>>
            /\ results[1].GainLoss = FZero)
    /\ []((pc = "done" /\ loaded = ExampleC) =>
            /\ results[1].MatchedLots =
                  << MatchedLot(F(3000), F(2000), 1, F(4000), F(6000)),
                     UnknownLot(F(2000), F(4000)) >>
            /\ results[1].GainLoss = F(6000)
            /\ fifo_queue = <<>>)
    /\ [][ (pc = "sell" /\ fifo_queue = <<>> /\ Len(lots') = Len(lots) + 1) =>
              /\ Last(lots').used_qty = sell_qty
              /\ IsUnknown(Last(lots'))
              /\ fifo_queue' = <<>> ]_vars
    /\ [][ (pc = "sell" /\ pc' = "rows" /\ lots /= <<>> /\ IsUnknown(Last(lots))) =>
              /\ fifo_queue' = <<>>
              /\ Last(results').MatchedLots = lots ]_vars

\* C5, witness: Buy 3 @ 2, Sell 5 @ 4 is done, with its Unknown lot of 2.
C5_Witness ==
    /\ pc = "done"
    /\ loaded = ExampleC
    /\ Len(results[1].MatchedLots) = 2
    /\ IsUnknown(results[1].MatchedLots[2])
    /\ results[1].MatchedLots[2].used_qty = F(2000)

ExampleA == Dated(<<Row(0, "Buy", Num(10000), Num(5000), 1, 1),
                    Row(0, "Buy", Num(5000), Num(6000), 1, 1),
                    Row(0, "Sell", Num(12000), Num(8000), 1, 1)>>)

\* C6: an iteration that needs less than the front lot records the quantity
\* still to match at the cost and date of the front lot, and leaves that lot
\* at the front, its quantity reduced by that amount, the rest of the queue
\* as it was; one that needs at least the front lot removes it.  Buy 10 @ 5,
\* Buy 5 @ 6, Sell 12 @ 8: (10, cost 5, gain 30), (2, cost 6, gain 4), total
\* 34, and the queue is one lot 3 @ 6.
C6_PartialLot ==
    /\ [][ (pc = "sell" /\ fifo_queue /= <<>> /\ Len(lots') = Len(lots) + 1) =>
              LET front == fifo_queue[1]
                  lot   == Last(lots')
              IN  /\ lot.buy_price = front.price
                  /\ lot.buy_date = front.date
                  /\ IF FLt(sell_qty, front.qty)
                     THEN /\ lot.used_qty = sell_qty
                          /\ fifo_queue' =
                                [fifo_queue EXCEPT ![1].qty = FSub(front.qty, sell_qty)]
                     ELSE /\ lot.used_qty = front.qty
                          /\ fifo_queue' = Tail(fifo_queue) ]_vars
    /\ []((pc = "done" /\ loaded = ExampleA) =>
            /\ Len(results) = 1
            /\ results[1].MatchedLots =
                  << MatchedLot(F(10000), F(5000), 1, F(8000), F(30000)),
                     MatchedLot(F(2000), F(6000), 2, F(8000), F(4000)) >>
            /\ results[1].GainLoss = F(34000)
            /\ fifo_queue = <<NewLot(F(3000), F(6000), 2)>>)

\* C6, witness: Buy 10 @ 5, Buy 5 @ 6, Sell 12 @ 8 is done and a lot is left.
C6_Witness ==
    /\ pc = "done"
    /\ loaded = ExampleA
    /\ Len(fifo_queue) = 1
    /\ Len(results[1].MatchedLots) = 2

\* the row being processed is a Sell of quantity 0
SellsZero ==
    /\ pc \in {"rows", "sell"}
    /\ ri <= Len(groups[gi].rows)
    /\ Parses(row)
    /\ row.type \notin buy_vals
    /\ row.type \in sell_vals
    /\ QtyOf(row) = FZero

\* C7: a Sell of quantity 0, whatever the queue holds, leaves the queue as it
\* is, matches no lot, and appends a Sale Result with no Matched Lot and a
\* total gain of 0.
C7_SellOfZero ==
    [][ SellsZero =>
          /\ fifo_queue' = fifo_queue
          /\ lots' = <<>>
          /\ pc' \in {"rows", "sell"}
          /\ pc = "rows" => pc' = "sell" /\ results' = results
          /\ pc = "sell" =>
                /\ pc' = "rows"
                /\ results' = Append(results, Last(results'))
                /\ Last(results').MatchedLots = <<>>
                /\ Last(results').GainLoss = FZero
                /\ Last(results').SellQty = FZero ]_vars

\* the selections of the run
Sel == [buy_vals |-> buy_vals, sell_vals |-> sell_vals, round_gains |-> round_gains,
        extra_id_cols |-> extra_id_cols]

\* the group of a row of the table: its identifier and, when a currency
\* column is selected, its currency
GroupOf(r) == <<r.id, IF has_currency THEN r.cur ELSE NA>>

\* the rows of a table that belong to a group, in the order of the table
Restrict(rows, key) ==
    LET In(r) == GroupOf(r) = key
    IN  SelectSeq(rows, In)

\* the Sale Results of a group, in the order they were produced
ResultsOf(res, key) ==
    LET In(r) == <<r.Identifier, r.Currency>> = key
    IN  SelectSeq(res, In)

\* C8: the Sale Results (with their Matched Lots) of a group are those of the
\* calculation on the table reduced to the rows of that group: whatever the
\* other groups hold, and wherever their rows stand in the table.
C8_GroupIndependence ==
    pc = "done" =>
        \A key \in {GroupOf(loaded[i]) : i \in 1..Len(loaded)} :
            ResultsOf(results, key)
              = FifoCalculation(Restrict(loaded, key), Sel, has_currency)

\* the quantity and the price of the row are texts of numbers
Convertible(r) == r.qty.valid /\ r.price.valid

\* C9: a row whose quantity or price float() rejects is skipped: the step
\* changes neither the queue nor the results, and the results of the run are
\* those of the calculation on the table without such rows.
C9_BadRowDropped ==
    /\ [][ (pc = "rows" /\ ri <= Len(groups[gi].rows) /\ ~Convertible(row)) =>
              /\ fifo_queue' = fifo_queue
              /\ results' = results
              /\ ri' = ri + 1
              /\ pc' = "rows" ]_vars
    /\ [](pc = "done" =>
            results = FifoCalculation(SelectSeq(loaded, Convertible), Sel, has_currency))

NoSelection == buy_vals = {} \/ sell_vals = {}

\* C10: with no Buy value or no Sell value selected the script stops before
\* any computation: the table is not sorted, no group and no queue is made,
\* no row is processed, no Sale Result and no output row is produced.
C10_ConfigError ==
    /\ [](NoSelection =>
            /\ pc \in {"selected", "stopped"}
            /\ df = loaded
            /\ groups = <<>> /\ gi = 0 /\ ri = 0
            /\ fifo_queue = <<>>
            /\ results = <<>>
            /\ expanded_results = <<>>)
    /\ [][ (NoSelection /\ pc = "selected") => pc' = "stopped" ]_vars

\* C10, witness: the script has stopped on a table with Buy rows of which
\* "Buy" was selected, no Sell value being selected.
C10_Witness ==
    /\ pc = "stopped"
    /\ buy_vals = {"Buy"}
    /\ sell_vals = {}
    /\ Len(loaded) = 3

\* C11: a second execution on the same table and the same configuration
\* produces the Sale Results, Matched Lots and output rows of the first; it
\* starts from an empty list of results and every group from an empty queue,
\* whatever the first execution left.
C11_Idempotence ==
    /\ []((pc = "done" /\ previous /= <<>>) =>
            /\ results = previous[1].results
            /\ expanded_results = previous[1].expanded_results)
    /\ [](pc = "done" => results = FifoCalculation(loaded, Sel, has_currency))
    /\ [][ (pc = "selected" /\ pc' = "groups") => results' = <<>> ]_vars
    /\ [][ (pc = "groups" /\ pc' = "rows") => fifo_queue' = <<>> ]_vars
    /\ [][ loaded' = loaded /\ Sel' = Sel /\ has_currency' = has_currency ]_vars

\* C11, witness: the second execution is done, with at least two Sale Results
\* and an open lot left in the queue, as the first was.
C11_Witness ==
    /\ pc = "done"
    /\ previous /= <<>>
    /\ Len(results) >= 2
    /\ results[1].MatchedLots /= <<>>
    /\ fifo_queue /= <<>>

\* the number of Matched Lots of the Sale Results before the i-th
RECURSIVE LotsBefore(_, _)
LotsBefore(res, i) ==
    IF i <= 1 THEN 0 ELSE LotsBefore(res, i - 1) + Len(res[i - 1].MatchedLots)

\* a sale date as the output shows it
Shown(d) == IF d = NaT THEN [text |-> "Invalid Date", day |-> 0]
            ELSE [text |-> "strftime", day |-> d]

\* C12: the output has one row per Matched Lot: the rows of the first Sale
\* Result, then those of the second, and so on, each sale's lots in their
\* recorded order; a row carries the identifier, date, price and quantity of
\* its sale and the used quantity, cost basis and gain of its lot; a sale
\* without Matched Lots has no row.
C12_OneRowPerLot ==
    pc = "done" =>
        /\ Len(expanded_results) = LotsBefore(results, Len(results) + 1)
        /\ \A i \in 1..Len(results) :
              \A j \in 1..Len(results[i].MatchedLots) :
                  LET out == expanded_results[LotsBefore(results, i) + j]
                      lot == results[i].MatchedLots[j]
                  IN  /\ out.Identifier = results[i].Identifier
                      /\ out.SellDate = Shown(results[i].Date)
                      /\ out.SellPrice = results[i].SellPrice
                      /\ out.SellQty = results[i].SellQty
                      /\ out.UsedQty = lot.used_qty
                      /\ out.BuyPrice = lot.buy_price
                      /\ out.GainLoss = lot.gain

\* the key of the group of a Sale Result
KeyOfResult(r) == <<r.Identifier, r.Currency>>

\* the place in the sorted table of the first row of a group
FirstRowOf(key) ==
    CHOOSE i \in 1..Len(df) :
        /\ <<df[i].Identifier, df[i].Currency>> = key
        /\ \A k \in 1..(i - 1) : <<df[k].Identifier, df[k].Currency>> /= key

\* key a stands before key b: by identifier, then by currency
KeyBefore(a, b) == a[1] < b[1] \/ (a[1] = b[1] /\ a[2] < b[2])

\* C13 as stated: the sales are in chronological order of their dates and,
\* at equal dates, in the order their groups are first met in the sorted
\* table.
C13_ChronologicalThenGroup ==
    pc = "done" =>
        \A i, j \in 1..Len(results) :
            i < j =>
                /\ ~Earlier(results[j].Date, results[i].Date)
                /\ results[i].Date = results[j].Date =>
                       FirstRowOf(KeyOfResult(results[i])) <= FirstRowOf(KeyOfResult(results[j]))

\* C13, amended: the sales are in the order of their groups, the groups in
\* ascending order of (identifier, currency), and chronological by sale date
\* within a group (sales without a valid date last).
C13_GroupThenChronological ==
    pc = "done" =>
        \A i, j \in 1..Len(results) :
            i < j =>
                \/ KeyBefore(KeyOfResult(results[i]), KeyOfResult(results[j]))
                \/ /\ KeyOfResult(results[i]) = KeyOfResult(results[j])
                   /\ ~Earlier(results[j].Date, results[i].Date)

\* C13, witness: two sales of two groups, the first produced dated later than
\* the second, and its group met later in the sorted table.
C13_Witness ==
    /\ pc = "done"
    /\ Len(results) = 2
    /\ KeyOfResult(results[1]) /= KeyOfResult(results[2])
    /\ Earlier(results[2].Date, results[1].Date)
    /\ FirstRowOf(KeyOfResult(results[2])) < FirstRowOf(KeyOfResult(results[1]))

\* a table sorted by date, rows of equal dates in their order, rows without
\* a date last
StableByDate(rows) == InsertionSort(SelectSeq(rows, NotNaT)) \o SelectSeq(rows, IsNaT)

\* the table is sorted and its groups are made
Sorted == pc \in {"groups", "rows", "sell", "done"}

\* C14: the rows of every group are processed in ascending order of date,
\* rows of equal dates in the order of the input: a Sell listed before a Buy
\* of the same date is matched before the Buy is queued, Buys of one date are
\* queued in the order of the input.
C14_StableSort ==
    Sorted =>
        \A g \in 1..Len(groups) :
            groups[g].rows
              = RowsOfKey(StableByDate(Converted(loaded, has_currency)), groups[g].key)

\* the number of rows of a table that satisfy Test
Count(rows, Test(_)) == Len(SelectSeq(rows, Test))

\* C15: a row whose date is no date is kept, with a null date: every group
\* has all the rows of the input that are its own, those without a date after
\* all those with one; a Buy without a date is queued, behind every lot that
\* has a date; a Sell without a date gives a Sale Result without a date.
C15_InvalidDateLast ==
    /\ [](Sorted =>
            \A g \in 1..Len(groups) :
                LET rs == groups[g].rows
                    Own(r) == GroupOf(r) = groups[g].key
                    OwnUndated(r) == Own(r) /\ r.date = BadDate
                IN  /\ Len(rs) = Count(loaded, Own)
                    /\ Count(rs, IsNaT) = Count(loaded, OwnUndated)
                    /\ \A i, j \in 1..Len(rs) :
                          (i < j /\ rs[i].date = NaT) => rs[j].date = NaT)
    /\ [](pc \in {"rows", "sell"} =>
            \A i, j \in 1..Len(fifo_queue) :
                (i < j /\ fifo_queue[i].date = NaT) => fifo_queue[j].date = NaT)
    /\ [][ (pc = "rows" /\ ri <= Len(groups[gi].rows) /\ row.date = NaT
              /\ Convertible(row)) =>
              /\ row.type \in buy_vals =>
                    /\ Len(fifo_queue') = Len(fifo_queue) + 1
                    /\ Last(fifo_queue').date = NaT
              /\ (row.type \notin buy_vals /\ row.type \in sell_vals) => pc' = "sell" ]_vars
    /\ [][ (pc = "sell" /\ pc' = "rows") =>
              /\ Len(results') = Len(results) + 1
              /\ Last(results').Date = row.date ]_vars

\* C15, witness: the table lists first a Buy without a date, then a Buy with
\* one, of the same group; the run is done, a Sell without a date was matched
\* against the dated Buy, and the undated Buy is in the queue.
C15_Witness ==
    /\ pc = "done"
    /\ loaded[1].date = BadDate /\ loaded[1].type = "Buy"
    /\ results /= <<>>
    /\ results[1].Date = NaT
    /\ results[1].Identifier = loaded[1].id
    /\ results[1].MatchedLots[1].buy_date \in {1, 2}
    /\ fifo_queue /= <<>> /\ Last(fifo_queue).date = NaT

\* the row being processed is a Buy
BuysNow ==
    /\ pc = "rows"
    /\ ri <= Len(groups[gi].rows)
    /\ Convertible(row)
    /\ row.type \in buy_vals

\* C16: a Buy puts one lot at the back of the queue, of the quantity, price
\* and date of the row, and leaves the lots already there as they are; it
\* adds no Sale Result and no output row.
C16_BuyFrame ==
    [][ BuysNow =>
          /\ fifo_queue' = fifo_queue \o
                <<[qty |-> FAbs(Float(row.qty)), price |-> Float(row.price),
                   date |-> row.date]>>
          /\ results' = results
          /\ expanded_results' = expanded_results
          /\ pc' = "rows" /\ ri' = ri + 1 /\ gi' = gi ]_vars

\* C16, witness: Buy 3 @ 2 has just been queued behind what a Sell left of
\* Buy 10 @ 5.
C16_Witness ==
    /\ pc = "rows"
    /\ ri > 1
    /\ groups[gi].rows[ri - 1].type = "Buy"
    /\ results /= <<>>
    /\ Len(fifo_queue) = 2
    /\ fifo_queue[1] = [qty |-> F(5000), price |-> F(5000), date |-> 1]
    /\ fifo_queue[2] = [qty |-> F(3000), price |-> F(2000), date |-> 3]

\* no quantity of the table is negative
NonNegativeQuantities ==
    \A i \in 1..Len(loaded) : loaded[i].qty.valid => loaded[i].qty.milli >= 0

\* C17: on a table without negative quantities, every Matched Lot of every
\* Sell has a used quantity > 0, also when a Buy of quantity 0 precedes the
\* Sell.
C17_UsedQuantityPositive ==
    NonNegativeQuantities =>
        /\ \A i \in 1..Len(results) :
              \A j \in 1..Len(results[i].MatchedLots) :
                  FGt(results[i].MatchedLots[j].used_qty, FZero)
        /\ pc = "sell" => \A j \in 1..Len(lots) : FGt(lots[j].used_qty, FZero)

\* the sums of a list of floats added in every order
SumsInAnyOrder(xs) ==
    LET n == Len(xs)
        Orders == {f \in [1..n -> 1..n] : \A i, j \in 1..n : f[i] = f[j] => i = j}
    IN  {FSum([i \in 1..n |-> xs[f[i]]]) : f \in Orders}

\* C18: with rounding on, the gain recorded for a Matched Lot of known cost
\* is round(used * (price - cost), 2), and the total of the sale is the sum
\* of those rounded gains, in whatever order they are added; with rounding
\* off, the gain recorded is used * (price - cost).
C18_RoundingOrder ==
    \A i \in 1..Len(results) :
        LET known == SelectSeq(results[i].MatchedLots, IsKnown)
            Raw(lot) == FMul(lot.used_qty, FSub(results[i].SellPrice, lot.buy_price))
        IN  /\ \A j \in 1..Len(known) :
                  known[j].gain = IF round_gains THEN Round2(Raw(known[j]))
                                  ELSE Raw(known[j])
            /\ round_gains => SumsInAnyOrder(Gains(known)) = {results[i].GainLoss}

\* the rows of the current group processed so far
Processed == SubSeq(groups[gi].rows, 1, ri - 1)

\* the quantities of the Buys among rows
BoughtQuantities(rows) ==
    LET IsBuy(r) == Convertible(r) /\ r.type \in buy_vals
        buys == SelectSeq(rows, IsBuy)
    IN  [i \in 1..Len(buys) |-> FAbs(Float(buys[i].qty))]

\* the used quantities of the Matched Lots of known cost of a list of Sale
\* Results
RECURSIVE KnownUsed(_)
KnownUsed(res) ==
    IF res = <<>> THEN <<>>
    ELSE UsedQuantities(SelectSeq(res[1].MatchedLots, IsKnown)) \o KnownUsed(Tail(res))

QueueQuantities == [i \in 1..Len(fifo_queue) |-> fifo_queue[i].qty]

\* C19: after every processed row of a group, the quantities of the Buys
\* processed so far add up to what remains in the queue plus what the Matched
\* Lots of known cost used; an iteration uses no more than the front lot
\* holds, and what remains of a lot never grows.
C19_QuantityConservation ==
    /\ [](pc = "rows" =>
            FSum(BoughtQuantities(Processed))
              = FAdd(FSum(QueueQuantities),
                     FSum(KnownUsed(ResultsOf(results, groups[gi].key)))))
    /\ [][ (pc = "sell" /\ fifo_queue /= <<>> /\ Len(lots') = Len(lots) + 1) =>
              /\ ~FGt(Last(lots').used_qty, fifo_queue[1].qty)
              /\ fifo_queue' /= Tail(fifo_queue) =>
                    /\ Len(fifo_queue') = Len(fifo_queue)
                    /\ ~FGt(fifo_queue'[1].qty, fifo_queue[1].qty)
                    /\ Tail(fifo_queue') = Tail(fifo_queue) ]_vars

\* the number of lots open when the Sell being matched started
OpenAtStart ==
    Len(RowsEffect([queue |-> <<>>, results |-> <<>>], Processed, groups[gi].key, Sel).queue)

\* the script is inside the body of the if of line 104
Running == pc \in {"groups", "rows", "sell"}

\* what is left to do: the groups not yet finished, whether the current one is
\* still to start, its rows not yet finished, the stage of the current row,
\* the lots a Sell can still consume
Variant ==
    << IF Running THEN Len(groups) + 1 - gi ELSE 0,
       IF pc = "groups" THEN 1 ELSE 0,
       IF pc \in {"rows", "sell"} THEN Len(groups[gi].rows) + 1 - ri ELSE 0,
       IF pc = "rows" THEN 2 ELSE IF pc = "sell" /\ FGt(sell_qty, FZero) THEN 1 ELSE 0,
       IF pc = "sell" THEN Len(fifo_queue) ELSE 0 >>

\* v comes before w in the lexicographic order
LexLess(v, w) ==
    \E k \in 1..Len(v) : v[k] < w[k] /\ \A i \in 1..(k - 1) : v[i] = w[i]

\* C20: the loop of a Sell has made at most (lots open at its start + 1)
\* iterations when it ends; each iteration records one Matched Lot and
\* either removes the front lot or leaves nothing to match, lots of quantity
\* 0 included; every
\* step of the run brings it nearer to its output: what is left to do, a
\* tuple of naturals, decreases in the lexicographic order, and the run ends
\* with the output made.
C20_Termination ==
    /\ [](pc = "sell" => ~FLt(sell_qty, FZero))
    /\ []((pc = "sell" /\ ~FGt(sell_qty, FZero)) => Len(lots) <= OpenAtStart + 1)
    /\ [][ (pc = "sell" /\ pc' = "sell") =>
              /\ Len(lots') = Len(lots) + 1
              /\ \/ fifo_queue /= <<>> /\ fifo_queue' = Tail(fifo_queue)
                 \/ sell_qty' = FZero ]_vars
    /\ [](\A k \in 1..Len(Variant) : Variant[k] >= 0)
    /\ [][ Running => (LexLess(Variant', Variant) /\ (Running' \/ pc' = "done")) ]_vars

\* C20, witness: a Sell of 2 is through after two iterations, one lot open at
\* its start: the first removed a lot of quantity 0, the second recorded the
\* Unknown lot.
C20_Witness ==
    /\ pc = "rows"
    /\ results /= <<>>
    /\ Len(Last(results).MatchedLots) = 2
    /\ Last(results).MatchedLots[1].used_qty = FZero
    /\ IsUnknown(Last(results).MatchedLots[2])
    /\ Last(results).SellQty = F(2000)
    /\ fifo_queue = <<>>

=============================================================================
